---- MODULE Spec2Model ----
(***************************************************************************)
(* Model of the Button widget of wgpu-ui (src/wgpu-ui/src/ui/button.rs).   *)
(*                                                                         *)
(* Units.  Lengths are whole logical pixels, except the two places where   *)
(* the code produces or consumes fractions: the position carried by a      *)
(* CursorMoved event and label.position (update divides by 2.).  Those two *)
(* are counted in half pixels, so that x.round() and "/ 2." are computed   *)
(* and not assumed away.                                                   *)
(***************************************************************************)
EXTENDS Integers, Sequences, FiniteSets, TLC

VARIABLES rect, label, position, mouse_position, paddings, events, visible,
          size, call, delivered, ret, cursor_moved_seen, inbounds_move_seen,
          override_active

vars == <<rect, label, position, mouse_position, paddings, events, visible,
          size, call, delivered, ret, cursor_moved_seen, inbounds_move_seen,
          override_active>>

\* ------------------------------------------------------------------ bounds
MaxQueue == 2

\* ------------------------------------------------------------ input values
Vec2(a, b) == [x |-> a, y |-> b]

Vec4(a, b, c, d) == [x |-> a, y |-> b, z |-> c, w |-> d]

Positions == {Vec2(0, 0), Vec2(100, 100)}

\* paddings given to set_paddings (a new Button has Vec4(0, 0, 0, 0))
PaddingValues == {Vec4(4, 4, 4, 4), Vec4(1, 2, 3, 4)}

SizeValues == {Vec2(10, 10)}

CharacterSizes == {30, 15}

\* cursor positions of CursorMoved, in half pixels:
\* (-0.5,-0.5) (10,10) (20,10) (40.5,20) (100,100)
CursorPositions == {Vec2(-1, -1), Vec2(20, 20), Vec2(40, 20), Vec2(81, 40),
                    Vec2(200, 200)}

ElementStates == {"Pressed", "Released"}

MouseButtons == {"Left", "Right", "Middle"}

EventCodes == {0, 1, 2}

WindowEvents ==
    {[type |-> "CursorMoved", position |-> p, state |-> "-", button |-> "-"] :
        p \in CursorPositions}
    \cup {[type |-> "MouseInput", position |-> Vec2(0, 0), state |-> s, button |-> b] :
        s \in ElementStates, b \in MouseButtons}
    \cup {[type |-> "Focused", position |-> Vec2(0, 0), state |-> "-", button |-> "-"]}

\* ------------------------------------------------------------ collaborators
\* enum ButtonEvent { Click, Hover }
ButtonEvent == {"Click", "Hover"}

\* `e as u32`: the discriminant of the enum
as_u32(e) == IF e = "Click" THEN 0 ELSE 1

\* from decoding 1, and not 0, as Click
from_u32_one_is_click(value) == IF value = 1 THEN "Click" ELSE "Hover"

\* impl From<u32> for ButtonEvent
from_u32(value) == IF value = 0 THEN "Click" ELSE "Hover"

\* the fill colour RectangleShape::new gives a shape before any
\* set_fill_color
DefaultFillColor == "DEFAULT"

\* Text::bounds: the measured extent of the label, a function of the
\* character size (30 px gives the 40 x 20 of the spec's scenario)
LabelBounds(l) ==
    [width |-> (4 * l.character_size) \div 3,
     height |-> (2 * l.character_size) \div 3]

\* RectangleShape::bounds: the axis-aligned box of the rectangle
Bounds(r) ==
    [x |-> r.position.x, y |-> r.position.y,
     width |-> r.size.x, height |-> r.size.y]

\* Rect::contains: both edges inclusive
Contains(b, p) ==
    /\ b.x <= p.x /\ p.x <= b.x + b.width
    /\ b.y <= p.y /\ p.y <= b.y + b.height

\* f32::round on a value given in half pixels: nearest integer, halves away
\* from zero
Round(h) ==
    IF h % 2 = 0 THEN h \div 2
    ELSE IF h > 0 THEN (h + 1) \div 2 ELSE (h - 1) \div 2

\* a whole-pixel point as a half-pixel point
ToHalf(p) == Vec2(2 * p.x, 2 * p.y)

\* ------------------------------------------------------------------ getters
\* Transformable::position
Position == rect.position

\* Widget::size
Size == rect.size

\* Widget::visible
Visible == visible

\* ------------------------------------------------------------------- update
\* update repainting the rectangle RED when it lays it out
update_resets_color(r, l, pos, pad) ==
    LET label_bounds == LabelBounds(l)
        sz == Vec2(label_bounds.width + pad.x + pad.w,
                   label_bounds.height + pad.y + pad.z)
        label_position == Vec2(2 * pos.x + (sz.x - label_bounds.width),
                               2 * pos.y + (sz.y - label_bounds.height))
    IN  [rect |-> [r EXCEPT !.size = sz, !.fill_color = "RED"],
         label |-> [l EXCEPT !.position = label_position]]

\* update placing the label at the left and top paddings instead of
\* centring it
update_left_top(r, l, pos, pad) ==
    LET label_bounds == LabelBounds(l)
        sz == Vec2(label_bounds.width + pad.x + pad.w,
                   label_bounds.height + pad.y + pad.z)
        label_position == Vec2(2 * pos.x + 2 * pad.x, 2 * pos.y + 2 * pad.y)
    IN  [rect |-> [r EXCEPT !.size = sz],
         label |-> [l EXCEPT !.position = label_position]]

\* Widget::update on a button whose rectangle, label, anchor and paddings
\* are r, l, pos, pad; yields the new rectangle and label.
\* label.position is in half pixels: 2 * (pos + (size - bounds) / 2.)
update(r, l, pos, pad) ==
    LET label_bounds == LabelBounds(l)
        sz == Vec2(label_bounds.width + pad.x + pad.w,
                   label_bounds.height + pad.y + pad.z)
        label_position == Vec2(2 * pos.x + (sz.x - label_bounds.width),
                               2 * pos.y + (sz.y - label_bounds.height))
    IN  [rect |-> [r EXCEPT !.size = sz],
         label |-> [l EXCEPT !.position = label_position]]

NoOutput ==
    /\ delivered' = <<>>
    /\ ret' = "none"

Called(op, arg) == call' = [op |-> op, arg |-> arg]

\* --------------------------------------------------------------------- Init
\* Button::new
Init ==
    /\ label = [character_size |-> 30, position |-> Vec2(0, 0)]
    /\ rect = [position |-> Vec2(0, 0),
               size |-> Vec2(LabelBounds(label).width, LabelBounds(label).height),
               fill_color |-> DefaultFillColor]
    /\ position = Vec2(0, 0)
    /\ mouse_position = Vec2(0, 0)
    /\ paddings = Vec4(0, 0, 0, 0)
    /\ events = <<>>
    /\ visible = TRUE
    /\ size = Vec2(0, 0)
    /\ call = [op |-> "new", arg |-> "-"]
    /\ delivered = <<>>
    /\ ret = "none"
    /\ cursor_moved_seen = FALSE
    /\ inbounds_move_seen = FALSE
    /\ override_active = FALSE

\* ------------------------------------------------------------------ actions
\* set_position moving the anchor and the label but not the rectangle
set_position_anchor_only(p) ==
    LET u == update(rect, [label EXCEPT !.position = ToHalf(p)], p, paddings)
    IN  /\ position' = p
        /\ rect' = u.rect
        /\ label' = u.label
        /\ override_active' = FALSE
        /\ Called("set_position", p)
        /\ NoOutput
        /\ UNCHANGED <<mouse_position, paddings, events, visible, size,
                       cursor_moved_seen, inbounds_move_seen>>

\* Transformable::set_position
set_position(p) ==
    LET u == update([rect EXCEPT !.position = p],
                    [label EXCEPT !.position = ToHalf(p)], p, paddings)
    IN  /\ position' = p
        /\ rect' = u.rect
        /\ label' = u.label
        /\ override_active' = FALSE
        /\ Called("set_position", p)
        /\ NoOutput
        /\ UNCHANGED <<mouse_position, paddings, events, visible, size,
                       cursor_moved_seen, inbounds_move_seen>>

\* Button::set_character_size
set_character_size(character_size) ==
    /\ label' = [label EXCEPT !.character_size = character_size]
    /\ Called("set_character_size", "-")
    /\ NoOutput
    /\ UNCHANGED <<rect, position, mouse_position, paddings, events, visible,
                   size, cursor_moved_seen, inbounds_move_seen, override_active>>

\* Button::set_paddings
set_paddings(p) ==
    LET u == update(rect, label, position, p)
    IN  /\ paddings' = p
        /\ rect' = u.rect
        /\ label' = u.label
        /\ override_active' = FALSE
        /\ Called("set_paddings", "-")
        /\ NoOutput
        /\ UNCHANGED <<position, mouse_position, events, visible, size,
                       cursor_moved_seen, inbounds_move_seen>>

\* Widget::set_visibility
set_visibility(visibility) ==
    /\ visible' = visibility
    /\ Called("set_visibility", visibility)
    /\ NoOutput
    /\ UNCHANGED <<rect, label, position, mouse_position, paddings, events,
                   size, cursor_moved_seen, inbounds_move_seen, override_active>>

\* Widget::set_size
set_size(sz) ==
    LET padded == Vec2(sz.x + paddings.x + paddings.w,
                       sz.y + paddings.y + paddings.z)
    IN  /\ size' = padded
        /\ rect' = [rect EXCEPT !.size = padded]
        /\ override_active' = TRUE
        /\ Called("set_size", sz)
        /\ NoOutput
        /\ UNCHANGED <<label, position, mouse_position, paddings, events,
                       visible, cursor_moved_seen, inbounds_move_seen>>

\* events handing the queue to the handler last to first
events_drain_lifo ==
    /\ delivered' = [i \in 1..Len(events) |-> as_u32(events[Len(events) + 1 - i])]
    /\ events' = <<>>
    /\ ret' = "none"
    /\ Called("events", "-")
    /\ UNCHANGED <<rect, label, position, mouse_position, paddings, visible,
                   size, cursor_moved_seen, inbounds_move_seen, override_active>>

\* Widget::events: drain(..) hands every queued event to the handler, first
\* to last, as its u32 code; delivered is what the handler received
events_drain ==
    /\ delivered' = [i \in 1..Len(events) |-> as_u32(events[i])]
    /\ events' = <<>>
    /\ ret' = "none"
    /\ Called("events", "-")
    /\ UNCHANGED <<rect, label, position, mouse_position, paddings, visible,
                   size, cursor_moved_seen, inbounds_move_seen, override_active>>

\* emitted removing only the events it matched (retain instead of drain)
emitted_retain(event) ==
    /\ ret' = (SelectSeq(events, LAMBDA e : as_u32(e) = event) # <<>>)
    /\ events' = SelectSeq(events, LAMBDA e : as_u32(e) # event)
    /\ delivered' = <<>>
    /\ Called("emitted", event)
    /\ UNCHANGED <<rect, label, position, mouse_position, paddings, visible,
                   size, cursor_moved_seen, inbounds_move_seen, override_active>>

\* Widget::emitted: drain(..) empties the queue, the filter keeps the events
\* whose code is `event`, the result is whether any was kept
emitted(event) ==
    /\ ret' = (SelectSeq(events, LAMBDA e : as_u32(e) = event) # <<>>)
    /\ events' = <<>>
    /\ delivered' = <<>>
    /\ Called("emitted", event)
    /\ UNCHANGED <<rect, label, position, mouse_position, paddings, visible,
                   size, cursor_moved_seen, inbounds_move_seen, override_active>>

\* Widget::update called by the host
DoUpdate ==
    LET u == update(rect, label, position, paddings)
    IN  /\ rect' = u.rect
        /\ label' = u.label
        /\ override_active' = FALSE
        /\ Called("update", "-")
        /\ NoOutput
        /\ UNCHANGED <<position, mouse_position, paddings, events, visible,
                       size, cursor_moved_seen, inbounds_move_seen>>

\* CursorMoved reporting Hover only when the pointer enters
CursorMoved_on_enter(event) ==
    LET bounds == Bounds(rect)
        mp == Vec2(Round(event.position.x), Round(event.position.y))
    IN  /\ event.type = "CursorMoved"
        /\ mouse_position' = mp
        /\ cursor_moved_seen' = TRUE
        /\ IF Contains(bounds, mp)
           THEN /\ Len(events) < MaxQueue
                /\ rect' = [rect EXCEPT !.fill_color = "GREEN"]
                /\ events' = IF rect.fill_color = "GREEN" THEN events
                             ELSE Append(events, "Hover")
                /\ inbounds_move_seen' = TRUE
           ELSE /\ rect' = [rect EXCEPT !.fill_color = "RED"]
                /\ UNCHANGED <<events, inbounds_move_seen>>

\* CursorMoved testing the position held before this event
CursorMoved_stale_position(event) ==
    LET bounds == Bounds(rect)
        mp == Vec2(Round(event.position.x), Round(event.position.y))
    IN  /\ event.type = "CursorMoved"
        /\ mouse_position' = mp
        /\ cursor_moved_seen' = TRUE
        /\ IF Contains(bounds, mouse_position)
           THEN /\ Len(events) < MaxQueue
                /\ rect' = [rect EXCEPT !.fill_color = "GREEN"]
                /\ events' = Append(events, "Hover")
                /\ inbounds_move_seen' = TRUE
           ELSE /\ rect' = [rect EXCEPT !.fill_color = "RED"]
                /\ UNCHANGED <<events, inbounds_move_seen>>

\* process_events, arm WindowEvent::CursorMoved
CursorMoved(event) ==
    LET bounds == Bounds(rect)
        mp == Vec2(Round(event.position.x), Round(event.position.y))
    IN  /\ event.type = "CursorMoved"
        /\ mouse_position' = mp
        /\ cursor_moved_seen' = TRUE
        /\ IF Contains(bounds, mp)
           THEN /\ Len(events) < MaxQueue
                /\ rect' = [rect EXCEPT !.fill_color = "GREEN"]
                /\ events' = Append(events, "Hover")
                /\ inbounds_move_seen' = TRUE
           ELSE /\ rect' = [rect EXCEPT !.fill_color = "RED"]
                /\ UNCHANGED <<events, inbounds_move_seen>>

\* MouseInput taking a left press without the hit test
MouseInput_no_hit_test(event) ==
    /\ event.type = "MouseInput"
    /\ event.button = "Left"
    /\ IF event.state = "Pressed"
       THEN /\ Len(events) < MaxQueue
            /\ events' = Append(events, "Click")
            /\ rect' = [rect EXCEPT !.fill_color = "BLUE"]
       ELSE UNCHANGED <<rect, events>>
    /\ UNCHANGED <<mouse_position, cursor_moved_seen, inbounds_move_seen>>

\* MouseInput whose Released branch is live: a left release repaints RED
MouseInput_release_resets(event) ==
    LET bounds == Bounds(rect)
    IN  /\ event.type = "MouseInput"
        /\ event.button = "Left"
        /\ IF Contains(bounds, mouse_position)
           THEN IF event.state = "Pressed"
                THEN /\ Len(events) < MaxQueue
                     /\ events' = Append(events, "Click")
                     /\ rect' = [rect EXCEPT !.fill_color = "BLUE"]
                ELSE /\ rect' = [rect EXCEPT !.fill_color = "RED"]
                     /\ UNCHANGED events
           ELSE UNCHANGED <<rect, events>>
        /\ UNCHANGED <<mouse_position, cursor_moved_seen, inbounds_move_seen>>

\* process_events, arm WindowEvent::MouseInput { button: Left }
MouseInput(event) ==
    LET bounds == Bounds(rect)
    IN  /\ event.type = "MouseInput"
        /\ event.button = "Left"
        /\ IF event.state = "Pressed" /\ Contains(bounds, mouse_position)
           THEN IF event.state = "Pressed"
                THEN /\ Len(events) < MaxQueue
                     /\ events' = Append(events, "Click")
                     /\ rect' = [rect EXCEPT !.fill_color = "BLUE"]
                ELSE /\ rect' = [rect EXCEPT !.fill_color = "RED"]
                     /\ UNCHANGED events
           ELSE UNCHANGED <<rect, events>>
        /\ UNCHANGED <<mouse_position, cursor_moved_seen, inbounds_move_seen>>

\* the catch-all arm taking a press of any other button for a click
OtherEvent_any_button(event) ==
    /\ ~(event.type = "CursorMoved")
    /\ ~(event.type = "MouseInput" /\ event.button = "Left")
    /\ IF event.type = "MouseInput" /\ event.state = "Pressed"
          /\ Contains(Bounds(rect), mouse_position)
       THEN /\ Len(events) < MaxQueue
            /\ events' = Append(events, "Click")
            /\ rect' = [rect EXCEPT !.fill_color = "BLUE"]
       ELSE UNCHANGED <<rect, events>>
    /\ UNCHANGED <<mouse_position, cursor_moved_seen, inbounds_move_seen>>

\* process_events, arm _ => {}
OtherEvent(event) ==
    /\ ~(event.type = "CursorMoved")
    /\ ~(event.type = "MouseInput" /\ event.button = "Left")
    /\ UNCHANGED <<rect, events, mouse_position, cursor_moved_seen,
                   inbounds_move_seen>>

\* process_events of a button that handles events only while visible
process_events_when_visible(event) ==
    /\ IF visible
       THEN \/ CursorMoved(event)
            \/ MouseInput(event)
            \/ OtherEvent(event)
       ELSE UNCHANGED <<rect, events, mouse_position, cursor_moved_seen,
                        inbounds_move_seen>>
    /\ Called("process_events", event)
    /\ NoOutput
    /\ UNCHANGED <<label, position, paddings, visible, size, override_active>>

\* Widget::process_events
process_events(event) ==
    /\ \/ CursorMoved(event)
       \/ MouseInput(event)
       \/ OtherEvent(event)
    /\ Called("process_events", event)
    /\ NoOutput
    /\ UNCHANGED <<label, position, paddings, visible, size, override_active>>

Next ==
    \/ \E p \in Positions : set_position(p)
    \/ \E s \in CharacterSizes : set_character_size(s)
    \/ \E p \in PaddingValues : set_paddings(p)
    \/ \E b \in BOOLEAN : set_visibility(b)
    \/ \E e \in SizeValues : set_size(e)
    \/ events_drain
    \/ \E k \in EventCodes : emitted(k)
    \/ DoUpdate
    \/ \E e \in WindowEvents : process_events(e)

Spec == Init /\ [][Next]_vars

\* ------------------------------------------------------------------ claims
\* vocabulary of the claims: the padding vector read as
\* (left, top, right, bottom) = (x, y, z, w)
Left(p) == p.x

Top(p) == p.y

Right(p) == p.z

Bottom(p) == p.w

\* the hit test as the claims state it: point p lies in rectangle r, both
\* edges inclusive
Inside(r, p) ==
    /\ r.position.x <= p.x /\ p.x <= r.position.x + r.size.x
    /\ r.position.y <= p.y /\ p.y <= r.position.y + r.size.y

\* label bounds plus paddings, as the claims add them
PaddedLabel(l, p) ==
    Vec2(LabelBounds(l).width + Left(p) + Right(p),
         LabelBounds(l).height + Top(p) + Bottom(p))

IsCursorMoved(c) == c.op = "process_events" /\ c.arg.type = "CursorMoved"

IsLeft(c, st) ==
    /\ c.op = "process_events"
    /\ c.arg.type = "MouseInput"
    /\ c.arg.button = "Left"
    /\ c.arg.state = st

HasEvent(q, e) == \E i \in 1..Len(q) : q[i] = e

\* C1 (as claimed): a Click in the queue was preceded by a CursorMoved whose
\* rounded position was inside the bounds when it was processed.
C1_ClickPrecededByInboundsMove ==
    HasEvent(events, "Click") => inbounds_move_seen

\* C2 (as claimed): on a Button still at the origin that has processed no
\* CursorMoved, a left press appends nothing and keeps the fill colour.
C2_PressBeforeFirstMoveIgnored ==
    [][(~cursor_moved_seen /\ Position = Vec2(0, 0) /\ IsLeft(call', "Pressed"))
        => (events' = events /\ rect'.fill_color = rect.fill_color)]_vars

\* C3 (as claimed): while no CursorMoved has landed inside the bounds, the
\* queue holds no Hover and no Click and the fill colour is neither GREEN
\* nor BLUE.
C3_NeverInsideNoEvents ==
    ~inbounds_move_seen =>
        /\ ~HasEvent(events, "Hover")
        /\ ~HasEvent(events, "Click")
        /\ rect.fill_color \notin {"GREEN", "BLUE"}

\* C4: a CursorMoved stores the position rounded to the nearest pixel; an
\* in-bounds point turns the fill GREEN and appends exactly one Hover,
\* whatever the colour was; any other point turns the fill RED and leaves
\* the queue alone.
C4_CursorMovedEffect ==
    [][IsCursorMoved(call') =>
        /\ 2 * mouse_position'.x - call'.arg.position.x \in {-1, 0, 1}
        /\ 2 * mouse_position'.y - call'.arg.position.y \in {-1, 0, 1}
        /\ IF Inside(rect, mouse_position')
           THEN /\ rect'.fill_color = "GREEN"
                /\ events' = Append(events, "Hover")
           ELSE /\ rect'.fill_color = "RED"
                /\ events' = events]_vars

\* two in-bounds cursor moves in a row left two Hovers
C4_Witness ==
    /\ IsCursorMoved(call)
    /\ rect.fill_color = "GREEN"
    /\ Len(events) >= 2
    /\ events[Len(events)] = "Hover"
    /\ events[Len(events) - 1] = "Hover"

\* C5: a left press with the last-known pointer position inside the bounds
\* appends exactly one Click and turns the fill BLUE; with the position
\* outside it changes neither queue, rectangle nor mouse_position.
C5_LeftPressEffect ==
    [][IsLeft(call', "Pressed") =>
        IF Inside(rect, mouse_position)
        THEN /\ events' = Append(events, "Click")
             /\ rect'.fill_color = "BLUE"
             /\ mouse_position' = mouse_position
        ELSE /\ events' = events
             /\ rect' = rect
             /\ mouse_position' = mouse_position]_vars

\* a press inside, after a hover, was answered by a Click
C5_Witness ==
    /\ IsLeft(call, "Pressed")
    /\ Inside(rect, mouse_position)
    /\ inbounds_move_seen
    /\ rect.fill_color = "BLUE"
    /\ events = <<"Hover", "Click">>

\* C6: events(handler) hands the handler every queued event once, oldest
\* first, as 0 for Click and 1 for Hover, and leaves the queue empty, so an
\* immediately following events(handler) delivers nothing.
C6_EventsDrainsFifo ==
    [][call'.op = "events" =>
        /\ delivered' = [i \in 1..Len(events) |->
                            IF events[i] = "Click" THEN 0 ELSE 1]
        /\ events' = <<>>
        /\ (call.op = "events" => delivered' = <<>>)]_vars

\* the handler received a Hover and then a Click
C6_Witness ==
    /\ call.op = "events"
    /\ delivered = <<1, 0>>
    /\ events = <<>>

\* C7: emitted(k) returns whether some queued event has code k and empties
\* the whole queue, so an immediately following emitted returns false and
\* an immediately following events delivers nothing.
C7_EmittedDrainsAll ==
    [][(call'.op = "emitted" =>
            /\ ret' = (\E i \in 1..Len(events) :
                          (IF events[i] = "Click" THEN 0 ELSE 1) = call'.arg)
            /\ events' = <<>>
            /\ (call.op = "emitted" => ret' = FALSE))
       /\ ((call.op = "emitted" /\ call'.op = "events") => delivered' = <<>>)]_vars

\* emitted found its event and left nothing behind
C7_Witness ==
    /\ call.op = "emitted"
    /\ call.arg = 0
    /\ ret = TRUE
    /\ events = <<>>

\* C8 (as claimed): after set_paddings or update, size() is the label's
\* bounds plus (left + right, top + bottom).
C8_SizeIsLabelPlusPaddings ==
    call.op \in {"set_paddings", "update"} => Size = PaddedLabel(label, paddings)

\* C9 (as claimed): set_position leaves size() as it was.
C9_SetPositionKeepsSize ==
    [][call'.op = "set_position" => Size' = Size]_vars

\* C10 (as claimed): with no set_size override in effect, the rectangle's
\* size is the label's current bounds plus (left + right, top + bottom).
C10_DerivedSizeInvariant ==
    ~override_active => rect.size = PaddedLabel(label, paddings)

\* C11: after set_position(p), position() = rect.position = the stored
\* anchor = p, and the three agree in every reachable state.
C11_PositionsAgree ==
    /\ Position = rect.position
    /\ rect.position = position
    /\ (call.op = "set_position" => Position = call.arg)

\* the Button was moved off the origin while a set_size override was in
\* effect before the move
C11_Witness ==
    /\ call.op = "set_position"
    /\ call.arg = Vec2(100, 100)
    /\ Position = Vec2(100, 100)
    /\ size # Vec2(0, 0)

\* C12: after update (direct, or through set_position or set_paddings) the
\* label is centred in the rectangle: label.position = position +
\* (rect.size - label.bounds) / 2 (both sides doubled, label.position being
\* in half pixels); with uniform paddings (c,c,c,c) that is position + (c,c).
C12_LabelCentred ==
    call.op \in {"update", "set_position", "set_paddings"} =>
        /\ label.position.x =
              2 * position.x + (rect.size.x - LabelBounds(label).width)
        /\ label.position.y =
              2 * position.y + (rect.size.y - LabelBounds(label).height)
        /\ \A c \in 0..5 :
              paddings = Vec4(c, c, c, c) =>
                  label.position = ToHalf(Vec2(position.x + c, position.y + c))

\* uneven paddings put the label on a half pixel
C12_Witness ==
    /\ call.op = "set_paddings"
    /\ paddings = Vec4(1, 2, 3, 4)
    /\ position = Vec2(100, 100)
    /\ label.position = Vec2(205, 205)

\* C13 (as claimed): after set_size(e), size() is
\* (e.x + left + right, e.y + top + bottom); after the next update it is the
\* label's bounds plus (left + right, top + bottom) whatever e was.
C13_SetSizePadded ==
    /\ call.op = "set_size" =>
          Size = Vec2(call.arg.x + Left(paddings) + Right(paddings),
                      call.arg.y + Top(paddings) + Bottom(paddings))
    /\ (call.op \in {"update", "set_position", "set_paddings"} /\ size # Vec2(0, 0))
          => Size = PaddedLabel(label, paddings)

\* C14: a left Released changes neither the rectangle (so not its fill
\* colour), nor the queue, nor mouse_position, in any state.
C14_LeftReleaseNoChange ==
    [][IsLeft(call', "Released") =>
        /\ rect' = rect
        /\ events' = events
        /\ mouse_position' = mouse_position]_vars

\* a release over the button after a click: the fill is still BLUE
C14_Witness ==
    /\ IsLeft(call, "Released")
    /\ Inside(rect, mouse_position)
    /\ rect.fill_color = "BLUE"
    /\ HasEvent(events, "Click")

IsIgnoredEvent(c) ==
    /\ c.op = "process_events"
    /\ \/ c.arg.type \notin {"CursorMoved", "MouseInput"}
       \/ c.arg.type = "MouseInput" /\ c.arg.button \in {"Right", "Middle"}

\* C15: a right- or middle-button MouseInput, or an event that is neither
\* CursorMoved nor MouseInput, leaves the whole Button as it was.
C15_OtherEventsIgnored ==
    [][IsIgnoredEvent(call') =>
        UNCHANGED <<rect, label, position, mouse_position, paddings, events,
                    visible, size>>]_vars

\* a right press with the pointer over the hovered button queued no Click
C15_Witness ==
    /\ call.op = "process_events"
    /\ call.arg.type = "MouseInput"
    /\ call.arg.button = "Right"
    /\ call.arg.state = "Pressed"
    /\ Inside(rect, mouse_position)
    /\ rect.fill_color = "GREEN"
    /\ events = <<"Hover">>

\* C16: the numeric encoding round-trips: decoding with from what events
\* handed out with `as u32` gives back the queue, Click travels as 0, and
\* every non-zero code decodes to Hover.
C16_EncodingRoundTrip ==
    [][/\ call'.op = "events" =>
            /\ [i \in 1..Len(delivered') |-> from_u32(delivered'[i])] = events
            /\ \A i \in 1..Len(events) :
                  (delivered'[i] = 0) <=> (events[i] = "Click")
       /\ (call'.op = "emitted" /\ call'.arg # 0) =>
            from_u32(call'.arg) = "Hover"
       /\ \A e \in ButtonEvent : from_u32(as_u32(e)) = e]_vars

\* the handler received a Click and then a Hover
C16_Witness ==
    /\ call.op = "events"
    /\ delivered = <<0, 1>>

\* what process_events(e) makes of queue q, rectangle r and pointer mp,
\* as the claims describe it: <<queue, fill colour, mouse_position>>
Handled(e, r, q, mp) ==
    IF e.type = "CursorMoved"
    THEN LET m == Vec2(Round(e.position.x), Round(e.position.y))
         IN  IF Inside(r, m) THEN <<Append(q, "Hover"), "GREEN", m>>
             ELSE <<q, "RED", m>>
    ELSE IF /\ e.type = "MouseInput" /\ e.button = "Left"
            /\ e.state = "Pressed" /\ Inside(r, mp)
         THEN <<Append(q, "Click"), "BLUE", mp>>
         ELSE <<q, r.fill_color, mp>>

\* C17: set_visibility(b) makes visible() = b and changes nothing else,
\* nothing else changes visible, and what process_events, events and
\* emitted do is a function of the other fields alone, so it is the same
\* for a visible and for a hidden Button.
C17_VisibilityIndependent ==
    [][/\ call'.op = "set_visibility" =>
            /\ Visible' = call'.arg
            /\ UNCHANGED <<rect, label, position, mouse_position, paddings,
                           events, size>>
       /\ call'.op # "set_visibility" => visible' = visible
       /\ call'.op = "process_events" =>
            <<events', rect'.fill_color, mouse_position'>> =
                Handled(call'.arg, rect, events, mouse_position)
       /\ call'.op = "events" =>
            /\ Len(delivered') = Len(events)
            /\ events' = <<>>
       /\ call'.op = "emitted" =>
            /\ ret' = HasEvent(events, IF call'.arg = 0 THEN "Click"
                                       ELSE IF call'.arg = 1 THEN "Hover"
                                       ELSE "-")
            /\ events' = <<>>]_vars

\* a hidden Button that has just been hovered
C17_Witness ==
    /\ IsCursorMoved(call)
    /\ ~Visible
    /\ rect.fill_color = "GREEN"
    /\ events = <<"Hover">>

IsMoveTo(c, px, py) ==
    IsCursorMoved(c) /\ c.arg.position = ToHalf(Vec2(px, py))

AtOrigin48x28 ==
    rect.position = Vec2(0, 0) /\ rect.size = Vec2(48, 28)

\* C18 (as claimed): on the 48 x 28 Button at the origin a CursorMoved to
\* (10,10) is outside (queue unchanged, RED) and a following CursorMoved to
\* (20,10) is inside (Hover, GREEN).
C18_AsClaimed ==
    [][(AtOrigin48x28 /\ IsCursorMoved(call')) =>
        /\ IsMoveTo(call', 10, 10) =>
              (events' = events /\ rect'.fill_color = "RED")
        /\ (IsMoveTo(call, 10, 10) /\ IsMoveTo(call', 20, 10)) =>
              (events' = Append(events, "Hover") /\ rect'.fill_color = "GREEN")]_vars

\* C18 (amended): on the 48 x 28 Button at the origin a CursorMoved to
\* (10,10) is inside (Hover, GREEN) and so is a following CursorMoved to
\* (20,10).
C18_BothInside ==
    [][(AtOrigin48x28 /\ IsCursorMoved(call')) =>
        /\ IsMoveTo(call', 10, 10) =>
              (events' = Append(events, "Hover") /\ rect'.fill_color = "GREEN")
        /\ (IsMoveTo(call, 10, 10) /\ IsMoveTo(call', 20, 10)) =>
              (events' = Append(events, "Hover") /\ rect'.fill_color = "GREEN")]_vars

\* the pointer went to (10,10) and on to (20,10): two Hovers
C18_Witness ==
    /\ AtOrigin48x28
    /\ IsMoveTo(call, 20, 10)
    /\ mouse_position = Vec2(20, 10)
    /\ paddings = Vec4(4, 4, 4, 4)
    /\ rect.fill_color = "GREEN"
    /\ events = <<"Hover", "Hover">>

\* C19 (as claimed): emitted(k) returns whether the queue holds an event
\* equal to ButtonEvent::from(k).
C19_EmittedDecodesCode ==
    [][call'.op = "emitted" =>
        ret' = HasEvent(events, from_u32(call'.arg))]_vars

IsLayoutCall(c) ==
    c.op \in {"set_position", "set_paddings", "set_size",
              "set_character_size", "update", "set_visibility"}

\* C20: set_position, set_paddings, set_size, set_character_size, update
\* and set_visibility leave the queue, the fill colour and mouse_position
\* unchanged; only process_events lengthens the queue or changes the
\* colour, only events and emitted shorten the queue.
C20_LayoutKeepsInteraction ==
    [][/\ IsLayoutCall(call') =>
            /\ events' = events
            /\ rect'.fill_color = rect.fill_color
            /\ mouse_position' = mouse_position
       /\ (Len(events') > Len(events) \/ rect'.fill_color # rect.fill_color)
            => call'.op = "process_events"
       /\ Len(events') < Len(events) => call'.op \in {"events", "emitted"}]_vars

\* a clicked Button with a full history was moved: still BLUE, queue intact
C20_Witness ==
    /\ call.op = "set_position"
    /\ Position = Vec2(100, 100)
    /\ rect.fill_color = "BLUE"
    /\ events = <<"Hover", "Click">>
    /\ mouse_position = Vec2(10, 10)

====
